---- MODULE Spec2Model ----
(***************************************************************************)
(* Daily HTML Publisher (scripts/daily_html_publisher.py).                 *)
(*                                                                         *)
(* Text (titles, HTML documents) is a sequence of tokens: a token is       *)
(* either one character that some conversion treats specially (backslash,  *)
(* ampersand, angle brackets, digit after a backslash, ...) or a chunk of   *)
(* ordinary characters.  Conversions (html.escape, slugify, the expansion   *)
(* of an re.sub replacement template, the regex searches) work token by     *)
(* token as the library works character by character.                       *)
(***************************************************************************)
EXTENDS Integers, Sequences, FiniteSets, TLC

\* ---------------------------------------------------------------- bounds
\* Number of times the scheduler starts the script.
MaxRuns == 2
\* SpecSitemap: longest sitemap drawn as input, and number of upserts applied.
MaxUrls == 2
MaxUpserts == 2
\* SpecHome: longest homepage drawn as input, and number of rebuilds applied
\* in a row.
MaxHomeLen == 4
MaxRebuilds == 2

\* -------------------------------------------------------------- settings
SITE_URL == "https://jainammehta.in"
\* The suffix of every page title; * stands for the bullet U+2022.
TITLE_SUFFIX == " * Jainam Mehta"
PLACEHOLDER_TITLE == <<"Publishing temporarily unavailable">>
PLACEHOLDER_BASE == <<"publishing-temporarily-unavailable">>
UL_POSTS == "<ul id=\"posts\">"
START_MARKER == "<!-- LATEST_POSTS_START -->"
END_MARKER == "<!-- LATEST_POSTS_END -->"
BS == "\\"
NoChild == "(no element)"

\* --------------------------------------------------------- text helpers
\* html.escape(s): & < > " ' are replaced, everything else is kept.
HtmlEscapeTok(tok) ==
    CASE tok = "&" -> <<"&", "amp;">>
      [] tok = "<" -> <<"&", "lt;">>
      [] tok = ">" -> <<"&", "gt;">>
      [] tok = "\"" -> <<"&", "quot;">>
      [] tok = "'" -> <<"&", "#x27;">>
      [] OTHER -> <<tok>>

RECURSIVE HtmlEscape(_)
HtmlEscape(text) ==
    IF text = <<>> THEN <<>>
    ELSE HtmlEscapeTok(Head(text)) \o HtmlEscape(Tail(text))

\* Tokens whose first character is an ASCII letter that is no escape of a
\* replacement template (the known ones are a b f n r t v).
LetterTokens ==
    {"d", "Q", "A", "Redis Caching", "Regex ", "Groups ", "Index", "Hello",
     "Publishing temporarily unavailable"}

\* The digit tokens a template reads as a group number.
GroupDigits == {"1", "2"}

GroupNumber(tok) == IF tok = "1" THEN 1 ELSE 2

\* re.sub's handling of a replacement string (re._parser.parse_template and
\* expand_template): backslash + backslash is one backslash, backslash +
\* digit is that group of the match (an error when the pattern has no such
\* group), backslash + any other ASCII letter is the error "bad escape",
\* and a backslash before anything else stays.  The template is compiled
\* before the search, so an error is raised whether or not there is a match.
RECURSIVE ExpandTemplate(_, _)
ExpandTemplate(tpl, groups) ==
    IF tpl = <<>> THEN [ok |-> TRUE, text |-> <<>>]
    ELSE IF Head(tpl) # BS
    THEN LET r == ExpandTemplate(Tail(tpl), groups)
         IN  [ok |-> r.ok, text |-> <<Head(tpl)>> \o r.text]
    ELSE IF Len(tpl) = 1 THEN [ok |-> FALSE, text |-> <<>>]
    ELSE LET c == tpl[2]
             r == ExpandTemplate(SubSeq(tpl, 3, Len(tpl)), groups)
         IN  CASE c = BS -> [ok |-> r.ok, text |-> <<BS>> \o r.text]
               [] c \in GroupDigits ->
                    IF GroupNumber(c) <= Len(groups)
                    THEN [ok |-> r.ok, text |-> <<groups[GroupNumber(c)]>> \o r.text]
                    ELSE [ok |-> FALSE, text |-> <<>>]
               [] c \in LetterTokens -> [ok |-> FALSE, text |-> <<>>]
               [] OTHER -> [ok |-> r.ok, text |-> <<BS, c>> \o r.text]

\* Position of the first token of text satisfying the set, 0 if none.
RECURSIVE FirstIn(_, _, _)
FirstIn(text, toks, from) ==
    IF from > Len(text) THEN 0
    ELSE IF text[from] \in toks THEN from
    ELSE FirstIn(text, toks, from + 1)

\* ------------------------------------------------------------ slugify
\* python-slugify on one token: lower-cased, every run of characters other
\* than letters and digits becomes one hyphen, hyphens at the ends dropped.
\* A token that is already such a slug is returned as it is.
SlugifyTok(tok) ==
    CASE tok = "Redis Caching" -> "redis-caching"
      [] tok = "Regex " -> "regex"
      [] tok = "Groups " -> "groups"
      [] tok = "Index" -> "index"
      [] tok = "Hello" -> "hello"
      [] tok = "Publishing temporarily unavailable" -> "publishing-temporarily-unavailable"
      [] tok = "Q" -> "q"
      [] tok = "A" -> "a"
      [] tok \in {BS, "&", "<", ">", "\"", "'", " ", ""} -> ""
      [] OTHER -> tok

RECURSIVE Slugify(_)
Slugify(text) ==
    IF text = <<>> THEN ""
    ELSE LET h == SlugifyTok(Head(text))
             t == Slugify(Tail(text))
         IN  IF h = "" THEN t
             ELSE IF t = "" THEN h
             ELSE h \o "-" \o t

\* ------------------------------------------------------------ the clock
\* Time is counted in half hours since midnight UTC of day 0; the host runs
\* in UTC (a GitHub Actions runner).
IsoFormat(day) ==
    IF day + 1 < 10 THEN "1970-01-0" \o ToString(day + 1)
    ELSE "1970-01-" \o ToString(day + 1)

\* datetime.date.today().isoformat()
DateToday(t) == IsoFormat(t \div 48)

\* today_iso(): the date at UTC+5:30.
today_iso(t) == IsoFormat((t + 11) \div 48)

\* ------------------------------------------------- the blog directory
\* The directory is the sequence of its post files in the order the
\* operating system lists them (glob order); blog/index.html is kept apart
\* (indexDoc).  A file is [slug, mtime, hasTitle, titleEl]: its stem, its
\* modification time, whether the page has a <title> element, and the text
\* of that element.
Stems(files) == {files[i].slug : i \in 1..Len(files)}

\* The stems of blog/*.html: the posts, and index.html when it exists.
HtmlStems(files, index) ==
    Stems(files) \cup (IF index.exists THEN {"index"} ELSE {})

\* ensure_unique_slug's while loop: i counts up from its start value.
RECURSIVE NextFree(_, _, _)
NextFree(s, stems, i) ==
    IF (s \o "-" \o ToString(i)) \in stems THEN NextFree(s, stems, i + 1)
    ELSE s \o "-" \o ToString(i)

SuffixFromThree(base, stems) ==
    LET s == Slugify(base)
    IN  IF s \notin stems THEN s ELSE NextFree(s, stems, 3)

ensure_unique_slug(base, stems) ==
    LET s == Slugify(base)
    IN  IF s \notin stems THEN s ELSE NextFree(s, stems, 2)

\* render_page: of the page only the <title> element is read back (by
\* rebuild_home_latest), so the page is that element.
render_page(title) ==
    [hasTitle |-> TRUE, titleEl |-> HtmlEscape(title) \o <<TITLE_SUFFIX>>]

\* pathlib write_text of blog/<slug>.html: a new file is added to the
\* directory, an existing one is replaced where it stands.
WriteFile(files, slug, page, t) ==
    LET f == [slug |-> slug, mtime |-> t,
              hasTitle |-> page.hasTitle, titleEl |-> page.titleEl]
    IN  IF slug \in Stems(files)
        THEN [i \in 1..Len(files) |-> IF files[i].slug = slug THEN f ELSE files[i]]
        ELSE Append(files, f)

\* ------------------------------------------------------ the blog index
LI_OPEN == "<li><a href=\"/blog/"
LI_HREF_END == ".html\">"
\* The - stands for the dash U+2014.
LI_SMALL == "</a> <small>- "
LI_CLOSE == "</small></li>"

\* re.IGNORECASE: the marker in any case.
MarkerToks == {UL_POSTS, "<UL ID=\"POSTS\">"}

\* What ensure_blog_index writes.
DefaultIndex ==
    <<"<!doctype html>...<main class=\"container\">", UL_POSTS,
      "<!-- posts will be prepended here --></ul></main></body></html>">>

ensure_blog_index(index) ==
    IF index.exists THEN index ELSE [exists |-> TRUE, doc |-> DefaultIndex]

IndexLink(slug, title, t) ==
    <<LI_OPEN, slug, LI_HREF_END>> \o HtmlEscape(title)
        \o <<LI_SMALL, DateToday(t), LI_CLOSE>>

\* prepend_link_to_index: re.sub(r'(<ul id="posts">)', r'\1' + link, ...,
\* count=1); ok is FALSE when re.sub raises re.error.
prepend_link_to_index(doc, slug, title, t) ==
    LET i == FirstIn(doc, MarkerToks, 1)
        r == ExpandTemplate(<<BS, "1">> \o IndexLink(slug, title, t),
                            <<IF i = 0 THEN UL_POSTS ELSE doc[i]>>)
    IN  [ok |-> r.ok,
         doc |-> IF r.ok /\ i > 0
                 THEN SubSeq(doc, 1, i - 1) \o r.text \o SubSeq(doc, i + 1, Len(doc))
                 ELSE doc]

\* The slugs linked from the index, in document order.
RECURSIVE IndexEntries(_)
IndexEntries(doc) ==
    IF Len(doc) < 2 THEN <<>>
    ELSE IF Head(doc) = LI_OPEN THEN <<doc[2]>> \o IndexEntries(Tail(doc))
    ELSE IndexEntries(Tail(doc))

\* --------------------------------------------------------- the sitemap
\* A sitemap file is absent, malformed, or an XML document: the sequence
\* of its <url> entries, each [loc, lastmod, priority, changefreq] with
\* NoChild for a child element that is not there.
RStripSlash(u) == IF u = "https://jainammehta.in/" THEN "https://jainammehta.in" ELSE u

PostLoc(site_url, slug) == RStripSlash(site_url) \o "/blog/" \o slug \o ".html"

HomeUrl(site_url, today) ==
    [loc |-> RStripSlash(site_url) \o "/", lastmod |-> today,
     priority |-> "1.0", changefreq |-> NoChild]

NewUrl(loc, today) ==
    [loc |-> loc, lastmod |-> today, priority |-> "0.7", changefreq |-> NoChild]

\* Lines 345-359: the parsed root, an empty root after a ParseError, or a
\* new root seeded with the homepage when there is no file.
SitemapRoot(sm, site_url, today) ==
    IF sm.kind = "xml" THEN sm.urls
    ELSE IF sm.kind = "malformed" THEN <<>>
    ELSE <<HomeUrl(site_url, today)>>

\* Lines 362-367: the first entry whose loc is the post's, 0 if none.
RECURSIVE FindLoc(_, _, _)
FindLoc(urls, loc, from) ==
    IF from > Len(urls) THEN 0
    ELSE IF urls[from].loc = loc THEN from
    ELSE FindLoc(urls, loc, from + 1)

ReplaceFoundUrl(sm, site_url, slug, today) ==
    LET root == SitemapRoot(sm, site_url, today)
        loc == PostLoc(site_url, slug)
        found == FindLoc(root, loc, 1)
    IN  [kind |-> "xml",
         urls |-> IF found = 0 THEN Append(root, NewUrl(loc, today))
                  ELSE [root EXCEPT ![found] = NewUrl(loc, today)]]

update_sitemap(sm, site_url, slug, today) ==
    LET root == SitemapRoot(sm, site_url, today)
        loc == PostLoc(site_url, slug)
        found == FindLoc(root, loc, 1)
    IN  [kind |-> "xml",
         urls |-> IF found = 0 THEN Append(root, NewUrl(loc, today))
                  ELSE [root EXCEPT ![found].lastmod = today]]

\* ------------------------------------------------------------- topics
\* A topic is the sequence of its characters.
Bucket1 ==
    <<"A", "I", " ", "a", "g", "e", "n", "t", "s", " ", "&", " ", "t", "o",
      "o", "l", "-", "u", "s", "e", " ", "p", "a", "t", "t", "e", "r", "n",
      "s">>

Bucket2 ==
    <<"N", "e", "x", "t", ".", "j", "s", " ", "p", "e", "r", "f", "o", "r",
      "m", "a", "n", "c", "e", " ", "t", "i", "p", "s">>

Bucket3 ==
    <<"N", "e", "s", "t", "J", "S", " ", "+", " ", "D", "y", "n", "a", "m",
      "o", "D", "B", " ", "p", "a", "t", "t", "e", "r", "n", "s">>

Bucket4 ==
    <<"R", "u", "s", "t", " ", "+", " ", "g", "R", "P", "C", " ", "m", "i",
      "c", "r", "o", "s", "e", "r", "v", "i", "c", "e", "s">>

Bucket5 ==
    <<"G", "r", "a", "p", "h", "Q", "L", " ", "p", "r", "o", "d", "u", "c",
      "t", "i", "o", "n", " ", "r", "e", "c", "i", "p", "e", "s">>

Bucket6 ==
    <<"P", "o", "s", "t", "g", "r", "e", "S", "Q", "L", " ", "t", "u", "n",
      "i", "n", "g", " ", "f", "o", "r", " ", "S", "a", "a", "S">>

TOPIC_BUCKETS == {Bucket1, Bucket2, Bucket3, Bucket4, Bucket5, Bucket6}

\* TOPIC_BUCKETS is a list edited in the source; no entry shipped holds a
\* banned keyword.  These two stand for entries added to it that do, one
\* in small letters and one in capitals.
TestBucket1 ==
    <<"C", "a", "s", "i", "n", "o", " ", "b", "o", "n", "u", "s", " ", "e",
      "n", "g", "i", "n", "e", "s">>

TestBucket2 ==
    <<"D", "e", "t", "e", "c", "t", "i", "n", "g", " ", "s", "o", "f", "t",
      "w", "a", "r", "e", " ", "P", "I", "R", "A", "C", "Y">>

TestBuckets == {TestBucket1, TestBucket2}

Angle1 ==
    <<"f", "r", "o", "m", "-", "s", "c", "r", "a", "t", "c", "h", " ", "g",
      "u", "i", "d", "e">>

Angle2 ==
    <<"p", "r", "o", "d", "u", "c", "t", "i", "o", "n", " ", "c", "h", "e",
      "c", "k", "l", "i", "s", "t">>

Angle3 ==
    <<"p", "i", "t", "f", "a", "l", "l", "s", " ", "a", "n", "d", " ", "f",
      "i", "x", "e", "s">>

Angle4 ==
    <<"a", "r", "c", "h", "i", "t", "e", "c", "t", "u", "r", "e", " ", "p",
      "a", "t", "t", "e", "r", "n", "s">>

Angle5 ==
    <<"h", "a", "n", "d", "s", "-", "o", "n", " ", "t", "u", "t", "o", "r",
      "i", "a", "l">>

Angles == {Angle1, Angle2, Angle3, Angle4, Angle5}

DEFAULT_TOPIC ==
    <<"A", "I", " ", "a", "g", "e", "n", "t", "s", " ", "&", " ", "t", "o",
      "o", "l", "-", "u", "s", "e", " ", "p", "a", "t", "t", "e", "r", "n",
      "s", ":", " ", "h", "a", "n", "d", "s", "-", "o", "n", " ", "t", "u",
      "t", "o", "r", "i", "a", "l">>

BANNED_KEYWORDS ==
    {<<"c", "a", "s", "i", "n", "o">>,
     <<"a", "d", "u", "l", "t">>,
     <<"h", "a", "t", "e">>,
     <<"p", "i", "r", "a", "c", "y">>}

\* str.lower() on one character.
UpperCase ==
    <<"A", "B", "C", "D", "E", "F", "G", "H", "I", "J", "K", "L", "M",
      "N", "O", "P", "Q", "R", "S", "T", "U", "V", "W", "X", "Y", "Z">>

LowerCase ==
    <<"a", "b", "c", "d", "e", "f", "g", "h", "i", "j", "k", "l", "m",
      "n", "o", "p", "q", "r", "s", "t", "u", "v", "w", "x", "y", "z">>

ToLower ==
    [c \in {UpperCase[i] : i \in 1..Len(UpperCase)} |->
        LowerCase[CHOOSE i \in 1..Len(UpperCase) : UpperCase[i] = c]]

LowerChar(c) == IF c \in DOMAIN ToLower THEN ToLower[c] ELSE c

Lower(s) == [i \in 1..Len(s) |-> LowerChar(s[i])]

\* b in t: b is a substring of t.
Contains(t, b) ==
    \E i \in 1..(Len(t) - Len(b) + 1) : SubSeq(t, i, i + Len(b) - 1) = b

BlockedCaseSensitive(topic) == \E b \in BANNED_KEYWORDS : Contains(topic, b)

blocked(topic) ==
    LET t == Lower(topic)
    IN  \E b \in BANNED_KEYWORDS : Contains(t, b)

\* pick_topic: random.seed(date ordinal) fixes one bucket and one angle per
\* calendar day; over the days every pair can come up.
TopicOf(bucket, angle) == bucket \o <<":", " ">> \o angle

\* ------------------------------------------------------- the homepage
HOME_LI_OPEN == "<li><a href=\"/blog/"
HOME_LI_CLOSE == "</a></li>"
LI_SEP == "\n          "
LI_TAIL == "\n        "
MAX_ITEMS == 5

WhiteToks == {" ", "\n", LI_SEP, LI_TAIL}

RECURSIVE LStrip(_)
LStrip(text) ==
    IF text # <<>> /\ Head(text) \in WhiteToks THEN LStrip(Tail(text)) ELSE text

RECURSIVE RStrip(_)
RStrip(text) ==
    IF text # <<>> /\ text[Len(text)] \in WhiteToks
    THEN RStrip(SubSeq(text, 1, Len(text) - 1))
    ELSE text

\* str.strip()
Strip(text) == RStrip(LStrip(text))

\* str.replace(old, ""): every occurrence of the token is dropped.
RECURSIVE RemoveAll(_, _)
RemoveAll(text, old) ==
    IF text = <<>> THEN <<>>
    ELSE IF Head(text) = old THEN RemoveAll(Tail(text), old)
    ELSE <<Head(text)>> \o RemoveAll(Tail(text), old)

RemoveAt(seq, i) == SubSeq(seq, 1, i - 1) \o SubSeq(seq, i + 1, Len(seq))

\* sorted(..., key=mtime, reverse=True): descending, and files of equal
\* mtime keep the order of the directory listing (the sort is stable).
RECURSIVE SortByMtimeDesc(_)
SortByMtimeDesc(files) ==
    IF files = <<>> THEN <<>>
    ELSE LET i == CHOOSE k \in 1..Len(files) :
                      /\ \A j \in 1..Len(files) : files[j].mtime <= files[k].mtime
                      /\ \A j \in 1..(k - 1) : files[j].mtime < files[k].mtime
         IN  <<files[i]>> \o SortByMtimeDesc(RemoveAt(files, i))

\* Lines 395-401: the display title of a post.
DisplayTitle(f) ==
    IF f.hasTitle THEN Strip(RemoveAll(f.titleEl, TITLE_SUFFIX)) ELSE <<f.slug>>

\* Lines 391-403: the first max_items posts, newest first.
LatestPosts(files, max_items) ==
    LET sorted == SortByMtimeDesc(files)
    IN  SubSeq(sorted, 1, IF Len(sorted) < max_items THEN Len(sorted) ELSE max_items)

HomeLi(f) ==
    <<HOME_LI_OPEN, f.slug, LI_HREF_END>> \o HtmlEscape(DisplayTitle(f))
        \o <<HOME_LI_CLOSE>>

\* "\n          ".join(...)
RECURSIVE JoinLi(_)
JoinLi(posts) ==
    IF posts = <<>> THEN <<>>
    ELSE IF Len(posts) = 1 THEN HomeLi(posts[1])
    ELSE HomeLi(posts[1]) \o <<LI_SEP>> \o JoinLi(Tail(posts))

LiHtml(posts) == <<LI_SEP>> \o JoinLi(posts) \o <<LI_TAIL>>

InsertAfterStart(home, files, max_items) ==
    LET s == FirstIn(home.doc, {START_MARKER}, 1)
    IN  IF ~home.exists \/ s = 0 THEN [ok |-> TRUE, home |-> home]
        ELSE [ok |-> TRUE,
              home |-> [home EXCEPT !.doc =
                           SubSeq(home.doc, 1, s)
                               \o LiHtml(LatestPosts(files, max_items))
                               \o SubSeq(home.doc, s + 1, Len(home.doc))]]

\* rebuild_home_latest: ok is FALSE when pattern.sub raises re.error.  The
\* pattern START.*?END (DOTALL, count=1) matches from the first start marker
\* to the first end marker after it.
rebuild_home_latest(home, files, max_items) ==
    IF ~home.exists THEN [ok |-> TRUE, home |-> home]
    ELSE IF ~(\E i \in 1..Len(home.doc) : home.doc[i] = START_MARKER)
            \/ ~(\E i \in 1..Len(home.doc) : home.doc[i] = END_MARKER)
    THEN [ok |-> TRUE, home |-> home]
    ELSE LET s == FirstIn(home.doc, {START_MARKER}, 1)
             e == FirstIn(home.doc, {END_MARKER}, s + 1)
             r == ExpandTemplate(<<START_MARKER>>
                                     \o LiHtml(LatestPosts(files, max_items))
                                     \o <<END_MARKER>>, <<>>)
         IN  [ok |-> r.ok,
              home |-> IF r.ok /\ e > 0
                       THEN [home EXCEPT !.doc =
                                SubSeq(home.doc, 1, s - 1) \o r.text
                                    \o SubSeq(home.doc, e + 1, Len(home.doc))]
                       ELSE home]

\* ------------------------------------------------------- the run log
\* The file .post_memory.json is absent, not valid JSON ("invalid"), or a
\* JSON object {"published": {date: [slug, ...]}} ("valid"); published is
\* what it records, date by date in file order.  An invalid file (cut
\* short, or with merge-conflict markers in it) still holds its records as
\* text.  JSON of another shape is not modelled.
load_memory(file) ==
    IF file.kind = "valid" THEN [published |-> file.published]
    ELSE [published |-> <<>>]

save_memory(m) == [kind |-> "valid", published |-> m.published]

ReplaceTodaysList(published, today, slug) ==
    IF \E i \in 1..Len(published) : published[i].date = today
    THEN [i \in 1..Len(published) |->
             IF published[i].date = today
             THEN [date |-> today, slugs |-> <<slug>>]
             ELSE published[i]]
    ELSE Append(published, [date |-> today, slugs |-> <<slug>>])

\* Lines 490-493: setdefault(today, []) and append(slug).
RecordSlug(published, today, slug) ==
    IF \E i \in 1..Len(published) : published[i].date = today
    THEN [i \in 1..Len(published) |->
             IF published[i].date = today
             THEN [published[i] EXCEPT !.slugs = Append(@, slug)]
             ELSE published[i]]
    ELSE Append(published, [date |-> today, slugs |-> <<slug>>])

\* ---------------------------------------------------------- the state
VARIABLES
    pc,        \* where the script stands: idle, generate, allocate, placeholder,
               \* prepend, sitemap, home, memory, returned, exited
    runs,      \* how many times the script was started
    now,       \* the clock, in half hours
    blog,      \* the post files of BLOG_DIR
    indexDoc,  \* BLOG_INDEX: [exists, doc]
    sitemap,   \* SITEMAP_PATH: [kind, urls]
    home,      \* HOME_INDEX_PATH: [exists, doc]
    memFile,   \* MEMORY_FILE: [kind, published]
    mem,       \* main's mem, what load_memory returned
    picked,    \* what pick_topic returned
    topic,     \* main's topic, what generate_article is called with
    data,      \* what generate_article returned: [title, slug]
    slug,      \* the slug of the post of this run
    title,     \* the title of the post of this run
    branch,    \* generated or placeholder, none before the generation call
    out,       \* what the run printed
    exitCode,  \* the exit status of the process, -1 while there is none
    start      \* the files as they were when the run started

vars ==
    <<pc, runs, now, blog, indexDoc, sitemap, home, memFile, mem, picked,
      topic, data, slug, title, branch, out, exitCode, start>>

Files == [blog |-> blog, indexDoc |-> indexDoc, sitemap |-> sitemap,
          home |-> home, memFile |-> memFile]

NoData == [title |-> <<>>, slug |-> ""]
NoMem == [published |-> <<>>]

\* ------------------------------------------------- the sites of Init
Absent == [exists |-> FALSE, doc |-> <<>>]

HandPost(s, t, el) == [slug |-> s, mtime |-> t, hasTitle |-> el # <<>>, titleEl |-> el]

\* Nothing but the script: the first run of a new repository.
FreshSite ==
    [blog |-> <<>>, indexDoc |-> Absent,
     sitemap |-> [kind |-> "absent", urls |-> <<>>],
     home |-> Absent,
     memFile |-> [kind |-> "absent", published |-> <<>>]]

\* A site the script has published to on two earlier days.
EstablishedSite ==
    [blog |-> <<HandPost("hello", 20, <<"Hello", TITLE_SUFFIX>>),
                HandPost("redis-caching", 70, <<"Redis Caching", TITLE_SUFFIX>>)>>,
     indexDoc |->
        [exists |-> TRUE,
         doc |-> <<DefaultIndex[1], UL_POSTS>>
                    \o IndexLink("redis-caching", <<"Redis Caching">>, 70)
                    \o IndexLink("hello", <<"Hello">>, 20)
                    \o <<DefaultIndex[3]>>],
     sitemap |->
        [kind |-> "xml",
         urls |-> <<HomeUrl(SITE_URL, IsoFormat(0)),
                    NewUrl(PostLoc(SITE_URL, "hello"), IsoFormat(0)),
                    NewUrl(PostLoc(SITE_URL, "redis-caching"), IsoFormat(1))>>],
     home |->
        [exists |-> TRUE,
         doc |-> <<"<h2>Latest from the Blog</h2><ul>", START_MARKER, LI_SEP,
                   END_MARKER, "</ul>">>],
     memFile |->
        [kind |-> "valid",
         published |-> <<[date |-> IsoFormat(0), slugs |-> <<"hello">>],
                         [date |-> IsoFormat(1), slugs |-> <<"redis-caching">>]>>]]

\* A site kept by hand: an index page without the list, a sitemap that does
\* not parse, a homepage without the end marker, a run log with
\* merge-conflict markers (its records still in it), posts without <title>.
HandMadeSite ==
    [blog |-> <<HandPost("redis-caching", 20, <<>>),
                HandPost("redis-caching-2", 20, <<>>)>>,
     indexDoc |-> [exists |-> TRUE, doc |-> <<"<h1>Blog</h1><p>Coming soon.</p>">>],
     sitemap |-> [kind |-> "malformed", urls |-> <<>>],
     home |-> [exists |-> TRUE, doc |-> <<"<ul>", START_MARKER, "</ul>">>],
     memFile |->
        [kind |-> "invalid",
         published |-> <<[date |-> IsoFormat(0), slugs |-> <<"redis-caching">>]>>]]

\* A site after a run that published "Groups \1" and ended in
\* rebuild_home_latest: the post, its index entry and its sitemap entry are
\* there, the homepage and the run log are as before.  The index has two
\* lists (the marker in capitals first), the homepage the markers twice.
OddSite ==
    [blog |-> <<HandPost("hello", 20, <<" ", "Hello", TITLE_SUFFIX, " ">>),
                HandPost("groups-1", 70, <<"Groups ", BS, "1", TITLE_SUFFIX>>)>>,
     indexDoc |->
        [exists |-> TRUE,
         doc |-> <<"<UL ID=\"POSTS\">", LI_OPEN, "groups-1", LI_HREF_END,
                   "Groups ", "<UL ID=\"POSTS\">", LI_SMALL, IsoFormat(1), LI_CLOSE>>
                    \o IndexLink("hello", <<"Hello">>, 20)
                    \o <<"</UL>", UL_POSTS, "</ul>">>],
     sitemap |->
        [kind |-> "xml",
         urls |-> <<HomeUrl(SITE_URL, IsoFormat(0)),
                    NewUrl(PostLoc(SITE_URL, "groups-1"), IsoFormat(1))>>],
     home |->
        [exists |-> TRUE,
         doc |-> <<END_MARKER, START_MARKER, "old", END_MARKER, START_MARKER,
                   "kept", END_MARKER>>],
     memFile |-> [kind |-> "valid", published |-> <<>>]]

Sites == {FreshSite, EstablishedSite, HandMadeSite, OddSite}

\* What generate_article's provider may answer: a title and a slug (absent:
\* the empty text).
Answers ==
    {[title |-> <<"Redis Caching">>, slug |-> <<>>],
     [title |-> <<"Redis Caching">>, slug |-> <<"redis-caching-2">>],
     [title |-> <<"Regex ", BS, "d">>, slug |-> <<>>],
     [title |-> <<"Groups ", BS, "1">>, slug |-> <<>>],
     [title |-> <<"Index">>, slug |-> <<>>]}

\* The time from one start of the script to the next: half an hour, a day.
Gaps == {1, 48}

Init ==
    /\ \E site \in Sites :
          /\ blog = site.blog
          /\ indexDoc = site.indexDoc
          /\ sitemap = site.sitemap
          /\ home = site.home
          /\ memFile = site.memFile
          /\ start = site
    /\ pc = "idle"
    /\ runs = 0
    /\ now = 84
    /\ mem = NoMem
    /\ picked = <<>>
    /\ topic = <<>>
    /\ data = NoData
    /\ slug = ""
    /\ title = <<>>
    /\ branch = "none"
    /\ out = <<>>
    /\ exitCode = -1

\* ---------------------------------------------------------- the script
\* main, lines 436-450: the index is created when missing, the run log is
\* loaded, the topic is picked and replaced when blocked.  (styles.css,
\* which nothing reads, is left out.)
StartRun ==
    /\ pc \in {"idle", "exited"}
    /\ runs < MaxRuns
    /\ \E bucket \in TOPIC_BUCKETS \cup TestBuckets, angle \in Angles :
          LET t == TopicOf(bucket, angle)
              skip == blocked(t)
          IN  /\ \E gap \in Gaps : now' = now + gap
              /\ picked' = t
              /\ topic' = IF skip THEN DEFAULT_TOPIC ELSE t
              /\ out' = IF skip THEN <<"[info] Blocked topic skipped">> ELSE <<>>
    /\ runs' = runs + 1
    /\ start' = Files
    /\ indexDoc' = ensure_blog_index(indexDoc)
    /\ mem' = load_memory(memFile)
    /\ pc' = "generate"
    /\ data' = NoData
    /\ slug' = ""
    /\ title' = <<>>
    /\ branch' = "none"
    /\ exitCode' = -1
    /\ UNCHANGED <<blog, sitemap, home, memFile>>

\* generate_article returns (lines 197-203: the title is stripped, the slug
\* is slugify(slug or title)).
GenerateOk ==
    /\ pc = "generate"
    /\ \E a \in Answers :
          LET t == Strip(a.title)
          IN  data' = [title |-> t,
                       slug |-> Slugify(IF a.slug # <<>> THEN a.slug ELSE t)]
    /\ branch' = "generated"
    /\ pc' = "allocate"
    /\ picked' = <<>>
    /\ topic' = <<>>
    /\ UNCHANGED <<runs, now, blog, indexDoc, sitemap, home, memFile, mem, slug,
                   title, out, exitCode, start>>

\* generate_article raises after its three attempts (lines 455-456).
GenerateFail ==
    /\ pc = "generate"
    /\ branch' = "placeholder"
    /\ out' = Append(out, "[warn] LLM generation failed")
    /\ pc' = "placeholder"
    /\ picked' = <<>>
    /\ topic' = <<>>
    /\ UNCHANGED <<runs, now, blog, indexDoc, sitemap, home, memFile, mem, data,
                   slug, title, exitCode, start>>

\* Lines 470-482: the slug is allocated and the page written.
PublishPage ==
    /\ pc = "allocate"
    /\ LET base_slug == IF data.slug # "" THEN data.slug ELSE Slugify(data.title)
           final_slug == ensure_unique_slug(<<base_slug>>, HtmlStems(blog, indexDoc))
       IN  /\ slug' = final_slug
           /\ blog' = WriteFile(blog, final_slug, render_page(data.title), now)
    /\ title' = data.title
    /\ pc' = "prepend"
    /\ UNCHANGED <<runs, now, indexDoc, sitemap, home, memFile, mem, picked, topic,
                   data, branch, out, exitCode, start>>

\* write_placeholder, lines 419-432.
write_placeholder ==
    /\ pc = "placeholder"
    /\ LET s == ensure_unique_slug(PLACEHOLDER_BASE, HtmlStems(blog, indexDoc))
       IN  /\ slug' = s
           /\ blog' = WriteFile(blog, s, render_page(PLACEHOLDER_TITLE), now)
    /\ title' = PLACEHOLDER_TITLE
    /\ pc' = "prepend"
    /\ UNCHANGED <<runs, now, indexDoc, sitemap, home, memFile, mem, picked, topic,
                   data, branch, out, exitCode, start>>

\* An exception nobody catches: the traceback is printed and the process
\* ends with status 1.
Raise ==
    /\ pc' = "exited"
    /\ exitCode' = 1

\* Lines 458 and 485.
PrependLink ==
    /\ pc = "prepend"
    /\ LET r == prepend_link_to_index(indexDoc.doc, slug, title, now)
       IN  IF r.ok
           THEN /\ indexDoc' = [indexDoc EXCEPT !.doc = r.doc]
                /\ pc' = "sitemap"
                /\ UNCHANGED exitCode
           ELSE /\ Raise
                /\ UNCHANGED indexDoc
    /\ UNCHANGED <<runs, now, blog, sitemap, home, memFile, mem, picked, topic,
                   data, slug, title, branch, out, start>>

\* Lines 459 and 486.
UpdateSitemap ==
    /\ pc = "sitemap"
    /\ sitemap' = update_sitemap(sitemap, SITE_URL, slug, today_iso(now))
    /\ pc' = "home"
    /\ UNCHANGED <<runs, now, blog, indexDoc, home, memFile, mem, picked, topic,
                   data, slug, title, branch, out, exitCode, start>>

\* Lines 460 and 487.
RebuildHome ==
    /\ pc = "home"
    /\ LET r == rebuild_home_latest(home, blog, MAX_ITEMS)
       IN  IF r.ok
           THEN /\ home' = r.home
                /\ pc' = "memory"
                /\ UNCHANGED exitCode
           ELSE /\ Raise
                /\ UNCHANGED home
    /\ UNCHANGED <<runs, now, blog, indexDoc, sitemap, memFile, mem, picked, topic,
                   data, slug, title, branch, out, start>>

\* Lines 462-468 and 490-496.
SaveMemory ==
    /\ pc = "memory"
    /\ mem' = [mem EXCEPT !.published = RecordSlug(@, DateToday(now), slug)]
    /\ memFile' = save_memory(mem')
    /\ out' = Append(out, IF branch = "placeholder"
                          THEN "Published placeholder due to LLM failure."
                          ELSE "Published: /blog/<slug>.html")
    /\ pc' = "returned"
    /\ UNCHANGED <<runs, now, blog, indexDoc, sitemap, home, picked, topic, data,
                   slug, title, branch, exitCode, start>>

\* Lines 498-500: after main() the module calls
\* rebuild_home_latest(pathlib.Path(HOME_INDEX_PATH), blog_dir); blog_dir is
\* a local of main, so evaluating the arguments raises NameError.
ScriptTail ==
    /\ pc = "returned"
    /\ Raise
    /\ UNCHANGED <<runs, now, blog, indexDoc, sitemap, home, memFile, mem, picked,
                   topic, data, slug, title, branch, out, start>>

\* Every filesystem operation succeeds: an OSError of a write is not modelled.
Next ==
    \/ StartRun
    \/ GenerateOk
    \/ GenerateFail
    \/ PublishPage
    \/ write_placeholder
    \/ PrependLink
    \/ UpdateSitemap
    \/ RebuildHome
    \/ SaveMemory
    \/ ScriptTail

Spec == Init /\ [][Next]_vars

\* ------------------------------------- the script on a new site
\* The runs of the script on a site that starts with no posts, no index, no
\* sitemap, no homepage and no run log.
InitFresh == Init /\ start = FreshSite

SpecFresh == InitFresh /\ [][Next]_vars

\* ------------------------------------- update_sitemap on its own
\* The entries a sitemap given as input is made of.
UrlPool ==
    {HomeUrl(SITE_URL, IsoFormat(0))}
        \cup {[loc |-> PostLoc(SITE_URL, s), lastmod |-> lm,
               priority |-> pf[1], changefreq |-> pf[2]] :
                 s \in {"hello", "redis-caching"},
                 lm \in {NoChild, IsoFormat(0)},
                 pf \in {<<"0.7", NoChild>>, <<NoChild, "daily">>}}

RECURSIVE SeqsUpTo(_, _)
SeqsUpTo(S, n) ==
    IF n = 0 THEN {<<>>}
    ELSE LET shorter == SeqsUpTo(S, n - 1)
         IN  shorter \cup {Append(q, x) : q \in shorter, x \in S}

SitemapInputs ==
    {[kind |-> "absent", urls |-> <<>>], [kind |-> "malformed", urls |-> <<>>]}
        \cup {[kind |-> "xml", urls |-> u] : u \in SeqsUpTo(UrlPool, MaxUrls)}

InitSitemap ==
    /\ sitemap \in SitemapInputs
    /\ start = [FreshSite EXCEPT !.sitemap = sitemap]
    /\ pc = "sitemap"
    /\ runs = 0
    /\ now = 84
    /\ blog = <<>>
    /\ indexDoc = Absent
    /\ home = Absent
    /\ memFile = FreshSite.memFile
    /\ mem = NoMem
    /\ picked = <<>>
    /\ topic = <<>>
    /\ data = NoData
    /\ slug = ""
    /\ title = <<>>
    /\ branch = "none"
    /\ out = <<>>
    /\ exitCode = -1

\* update_sitemap(sitemap_path, SITE_URL, slug) called at some later time;
\* start keeps the file as it was before the call.
Upsert ==
    /\ pc = "sitemap"
    /\ runs < MaxUpserts
    /\ \E s \in {"hello", "redis-caching"}, gap \in Gaps :
          /\ slug' = s
          /\ now' = now + gap
          /\ sitemap' = update_sitemap(sitemap, SITE_URL, s, today_iso(now + gap))
    /\ start' = [start EXCEPT !.sitemap = sitemap]
    /\ runs' = runs + 1
    /\ UNCHANGED <<pc, blog, indexDoc, home, memFile, mem, picked, topic, data,
                   title, branch, out, exitCode>>

SpecSitemap == InitSitemap /\ [][Upsert]_vars

\* --------------------------------- rebuild_home_latest on its own
HomeInputs ==
    {Absent}
        \cup {[exists |-> TRUE, doc |-> d] :
                 d \in SeqsUpTo({START_MARKER, END_MARKER, "<p>text</p>"}, MaxHomeLen)}

\* Six posts, four of them of one mtime: more than max_items.
SixPosts ==
    <<HandPost("a", 20, <<"A", TITLE_SUFFIX>>),
      HandPost("hello", 30, <<" ", "Hello", TITLE_SUFFIX, " ">>),
      HandPost("q-a", 30, <<"Q", "&", "amp;", "A", TITLE_SUFFIX>>),
      HandPost("redis-caching", 30, <<>>),
      HandPost("index-2", 70, <<"Index", TITLE_SUFFIX>>),
      HandPost("redis-caching-2", 30, <<"Redis Caching", TITLE_SUFFIX>>)>>

BlogInputs ==
    {<<>>,
     SixPosts,
     <<HandPost("paths", 20, <<"C:", BS, BS, "tmp", TITLE_SUFFIX>>)>>,
     <<HandPost("hello", 20, <<"Hello", TITLE_SUFFIX>>),
       HandPost("groups-1", 70, <<"Groups ", BS, "1", TITLE_SUFFIX>>)>>}

InitHome ==
    /\ home \in HomeInputs
    /\ blog \in BlogInputs
    /\ start = [FreshSite EXCEPT !.home = home, !.blog = blog]
    /\ pc = "home"
    /\ runs = 0
    /\ now = 84
    /\ indexDoc = Absent
    /\ sitemap = FreshSite.sitemap
    /\ memFile = FreshSite.memFile
    /\ mem = NoMem
    /\ picked = <<>>
    /\ topic = <<>>
    /\ data = NoData
    /\ slug = ""
    /\ title = <<>>
    /\ branch = "none"
    /\ out = <<>>
    /\ exitCode = -1

\* rebuild_home_latest(home_index_path, blog_dir) called again, no post
\* added, removed or modified since; exitCode tells whether it raised.
Rebuild ==
    /\ pc = "home"
    /\ runs < MaxRebuilds
    /\ LET r == rebuild_home_latest(home, blog, MAX_ITEMS)
       IN  /\ home' = IF r.ok THEN r.home ELSE home
           /\ exitCode' = IF r.ok THEN 0 ELSE 1
    /\ runs' = runs + 1
    /\ UNCHANGED <<pc, now, blog, indexDoc, sitemap, memFile, mem, picked, topic,
                   data, slug, title, branch, out, start>>

SpecHome == InitHome /\ [][Rebuild]_vars

\* ============================================================ claims
HasMarker(doc) == \E i \in 1..Len(doc) : doc[i] \in MarkerToks

UrlCount(sm) == IF sm.kind = "xml" THEN Len(sm.urls) ELSE 0

HasLoc(sm, loc) == sm.kind = "xml" /\ \E i \in 1..Len(sm.urls) : sm.urls[i].loc = loc

Logged(file, today, s) ==
    /\ file.kind = "valid"
    /\ \E i \in 1..Len(file.published) :
          /\ file.published[i].date = today
          /\ \E j \in 1..Len(file.published[i].slugs) : file.published[i].slugs[j] = s

\* The text between the link's href and its closing </a> in the index.
IndexTitleOf(doc, s) ==
    LET i == CHOOSE k \in 1..Len(doc) : doc[k] = LI_OPEN /\ doc[k + 1] = s
        e == FirstIn(doc, {LI_SMALL}, i)
    IN  SubSeq(doc, i + 3, e - 1)

SlugName(s, n) == IF n = 1 THEN s ELSE s \o "-" \o ToString(n)

\* C1: every run in which no filesystem write fails ends with exit status 0,
\* whether the generator returned a draft or failed.
C1_RunEndsInSuccess == pc = "exited" => exitCode = 0

\* C2: when the generation call fails, the run adds exactly one post file,
\* exactly one sitemap entry and exactly one index entry, the post and the
\* index entry carry the placeholder title, and the run log records the
\* placeholder's slug for the day.
C2_PlaceholderPublished ==
    (pc = "exited" /\ branch = "placeholder") =>
        /\ Len(blog) = Len(start.blog) + 1
        /\ slug \in Stems(blog) \ Stems(start.blog)
        /\ \A i \in 1..Len(blog) :
              blog[i].slug = slug =>
                  blog[i].titleEl = HtmlEscape(PLACEHOLDER_TITLE) \o <<TITLE_SUFFIX>>
        /\ UrlCount(sitemap) = UrlCount(start.sitemap) + 1
        /\ Len(IndexEntries(indexDoc.doc)) = Len(IndexEntries(start.indexDoc.doc)) + 1
        /\ IndexEntries(indexDoc.doc)[1] = slug
        /\ IndexTitleOf(indexDoc.doc, slug) = PLACEHOLDER_TITLE
        /\ Logged(memFile, DateToday(now), slug)

\* The candidate main hands to ensure_unique_slug in this run.
Candidate ==
    IF pc = "placeholder" THEN Slugify(PLACEHOLDER_BASE)
    ELSE IF data.slug # "" THEN data.slug ELSE Slugify(data.title)

\* C3: with base, base-2, ..., base-(n-1) taken and base-n free (base alone
\* for n = 1), the allocation returns base-n, so successive allocations of
\* one candidate return base, base-2, base-3, ... in order; the slug names
\* no existing file, and the write leaves every existing post as it was.
C3_SlugAllocation ==
    [][(pc \in {"allocate", "placeholder"} /\ pc' = "prepend") =>
          LET stems == HtmlStems(blog, indexDoc)
          IN  /\ slug' \notin stems
              /\ \E n \in 1..(Cardinality(stems) + 1) :
                    /\ slug' = SlugName(Candidate, n)
                    /\ \A j \in 1..(n - 1) : SlugName(Candidate, j) \in stems
              /\ Len(blog') = Len(blog) + 1
              /\ \A i \in 1..Len(blog) : blog'[i] = blog[i]
              /\ blog'[Len(blog')].slug = slug'
              /\ Cardinality(Stems(blog')) = Len(blog')]_vars

C3_ThirdOfItsName ==
    /\ pc = "prepend"
    /\ slug = "redis-caching-3"
    /\ {"redis-caching", "redis-caching-2"} \subseteq Stems(blog)

\* C6: prepending to an index that has the marker puts the new entry first,
\* right after the first marker, and leaves the rest of the document as it was.
C6_PrependKeepsOrder ==
    [][(pc = "prepend" /\ HasMarker(indexDoc.doc)) =>
          LET old == indexDoc.doc
              new == indexDoc'.doc
              i == FirstIn(old, MarkerToks, 1)
              k == Len(new) - Len(old)
          IN  /\ IndexEntries(new) = <<slug>> \o IndexEntries(old)
              /\ SubSeq(new, 1, i) = SubSeq(old, 1, i)
              /\ new[i + 1] = LI_OPEN
              /\ SubSeq(new, i + k + 1, Len(new)) = SubSeq(old, i + 1, Len(old))]_vars

\* C7: when the index exists without the marker, the prepend step reports
\* it and is not fatal: the index is left as it was and the run writes the
\* post, upserts the sitemap, rebuilds the homepage list and appends to the
\* run log.
C7_MissingMarkerNotFatal ==
    (pc = "exited" /\ start.indexDoc.exists /\ ~HasMarker(start.indexDoc.doc)) =>
        /\ indexDoc = start.indexDoc
        /\ slug \in Stems(blog) \ Stems(start.blog)
        /\ HasLoc(sitemap, PostLoc(SITE_URL, slug))
        /\ home = rebuild_home_latest(start.home, blog, MAX_ITEMS).home
        /\ Logged(memFile, DateToday(now), slug)
        /\ \E i \in 1..Len(out) :
              out[i] \notin {"[info] Blocked topic skipped",
                             "[warn] LLM generation failed",
                             "Published placeholder due to LLM failure.",
                             "Published: /blog/<slug>.html"}

\* new is old with s appended to the list of today, a list that is created
\* at the end when old has none; nothing else differs.
AppendedTo(old, new, today, s) ==
    /\ Len(new) = Len(old) + (IF \E i \in 1..Len(old) : old[i].date = today THEN 0 ELSE 1)
    /\ \A i \in 1..Len(old) :
          /\ new[i].date = old[i].date
          /\ new[i].slugs = IF old[i].date = today THEN Append(old[i].slugs, s)
                            ELSE old[i].slugs
    /\ Len(new) > Len(old) => new[Len(new)] = [date |-> today, slugs |-> <<s>>]

\* C9 as stated: whatever the run-log file held, a completed run appends the
\* slug of its post to the end of today's list and keeps every date and slug
\* recorded before, in order.
C9_AppendOnlyAnyContent ==
    pc = "returned" =>
        /\ memFile.kind = "valid"
        /\ AppendedTo(start.memFile.published, memFile.published, DateToday(now), slug)

\* C9 as amended: the same for a run-log file that is absent or holds JSON
\* of the expected shape; a file that is not valid JSON is discarded, and
\* after the run the log holds today's list with the new slug alone.
C9_AppendOnlyParsedLog ==
    pc = "returned" =>
        /\ slug \in Stems(blog) \ Stems(start.blog)
        /\ memFile.kind = "valid"
        /\ AppendedTo(IF start.memFile.kind = "valid" THEN start.memFile.published ELSE <<>>,
                      memFile.published, DateToday(now), slug)

C9_SecondSlugOfTheDay ==
    /\ pc = "returned"
    /\ start.memFile.kind = "valid"
    /\ \E i \in 1..Len(memFile.published) :
          /\ memFile.published[i].date = DateToday(now)
          /\ Len(memFile.published[i].slugs) >= 2
          /\ i < Len(memFile.published) \/ i > 1

\* Some banned keyword is a substring of t when case is ignored.
HasBannedKeyword(t) ==
    \E b \in BANNED_KEYWORDS : \E i \in 1..Len(t) :
        /\ i + Len(b) - 1 <= Len(t)
        /\ \A j \in 1..Len(b) : LowerChar(t[i + j - 1]) = b[j]

\* C10: a picked topic with a banned keyword in it (in any case) does not
\* end the run, the generator is called with the fixed default topic; any
\* other picked topic is passed on as it is.
C10_BlockedTopicReplaced ==
    pc = "generate" =>
        /\ exitCode = -1
        /\ topic = IF HasBannedKeyword(picked) THEN DEFAULT_TOPIC ELSE picked
        /\ ENABLED GenerateOk
        /\ ENABLED GenerateFail

C10_CapitalsBlocked ==
    /\ pc = "generate"
    /\ picked = TopicOf(TestBucket2, Angle3)
    /\ topic = DEFAULT_TOPIC

\* Every location is the loc of at most one entry.
OnePerLoc(urls) ==
    \A i, j \in 1..Len(urls) : urls[i].loc = urls[j].loc => i = j

\* C4: an upsert of a location the sitemap has adds no entry and changes
\* nothing but the lastmod of the (first) entry of that location, which
\* becomes today; and no upsert gives a location a second entry.
C4_UpsertTouchesOnlyLastmod ==
    [][(runs' = runs + 1) =>
          LET loc == PostLoc(SITE_URL, slug')
              old == sitemap.urls
              new == sitemap'.urls
          IN  /\ HasLoc(sitemap, loc) =>
                    /\ Len(new) = Len(old)
                    /\ \A i \in 1..Len(old) :
                          IF i = FindLoc(old, loc, 1)
                          THEN /\ new[i].loc = old[i].loc
                               /\ new[i].priority = old[i].priority
                               /\ new[i].changefreq = old[i].changefreq
                               /\ new[i].lastmod = today_iso(now')
                          ELSE new[i] = old[i]
              /\ (sitemap.kind = "xml" /\ OnePerLoc(old)) => OnePerLoc(new)]_vars

C4_LastmodMoved ==
    /\ runs = 2
    /\ HasLoc(start.sitemap, PostLoc(SITE_URL, slug))
    /\ Len(sitemap.urls) = 2
    /\ sitemap.urls[1].changefreq = "daily"
    /\ sitemap.urls[1].loc = PostLoc(SITE_URL, slug)
    /\ sitemap.urls[1].lastmod = IsoFormat(2)
    /\ start.sitemap.urls[1].lastmod = NoChild

\* C5: an upsert on a sitemap file that does not parse gives what it gives
\* when there is no file: the site root (priority 1.0, lastmod today), then
\* the post (priority 0.7, lastmod today).
C5_MalformedAsAbsent ==
    (runs >= 1 /\ pc = "sitemap" /\ start.sitemap.kind = "malformed") =>
        /\ sitemap.kind = "xml"
        /\ sitemap.urls = <<HomeUrl(SITE_URL, today_iso(now)),
                            NewUrl(PostLoc(SITE_URL, slug), today_iso(now))>>
        /\ sitemap = update_sitemap([kind |-> "absent", urls |-> <<>>],
                                    SITE_URL, slug, today_iso(now))

\* C8: a rebuild that follows a rebuild, the posts being the same, leaves
\* the homepage as it is; and a rebuild changes nothing before the first
\* start marker, nor after the first end marker that follows it.
C8_RebuildIdempotent ==
    [][(runs' = runs + 1) =>
          /\ runs >= 1 => home' = home
          /\ home'.exists = home.exists
          /\ home' # home =>
                LET s == FirstIn(home.doc, {START_MARKER}, 1)
                    e == FirstIn(home.doc, {END_MARKER}, s + 1)
                    k == Len(home'.doc) - Len(home.doc)
                IN  /\ s > 0 /\ e > 0
                    /\ SubSeq(home'.doc, 1, s) = SubSeq(home.doc, 1, s)
                    /\ SubSeq(home'.doc, e + k, Len(home'.doc))
                          = SubSeq(home.doc, e, Len(home.doc))]_vars

C8_RebuiltTwice ==
    /\ pc = "home"
    /\ runs = 2
    /\ exitCode = 0
    /\ blog = SixPosts
    /\ home # start.home
    /\ Cardinality({i \in 1..Len(home.doc) : home.doc[i] = HOME_LI_OPEN}) = MAX_ITEMS

\* How many times x occurs in the sequence q.
Occurrences(q, x) == Cardinality({i \in 1..Len(q) : q[i] = x})

\* The locations of the sitemap other than the site root.
BlogLocs(sm) ==
    IF sm.kind # "xml" THEN <<>>
    ELSE SelectSeq([i \in 1..Len(sm.urls) |-> sm.urls[i].loc],
                   LAMBDA l : l # RStripSlash(SITE_URL) \o "/")

\* The slugs of the run log, date after date.
RECURSIVE LoggedSlugs(_)
LoggedSlugs(published) ==
    IF published = <<>> THEN <<>>
    ELSE Head(published).slugs \o LoggedSlugs(Tail(published))

====
